---- MODULE Spec2Model ----
(***************************************************************************)
(* Usage ledger / admission control (RateLimiter, rate-limiter.js) and the *)
(* streaming completion coordinator (AIAvatarService, service-worker.js)   *)
(* of the AI Avatar extension.                                             *)
(*                                                                         *)
(* Execution model: one JavaScript event loop.  One action of this module  *)
(* is one macrotask (an incoming call or message, the completion of a      *)
(* chrome.storage request, a transport event, a timer) together with all   *)
(* the promise continuations it makes runnable: code between two           *)
(* suspension points on real I/O runs without interleaving.                *)
(*                                                                         *)
(* Encodings: money is counted in micro-dollars (a rate of 0.03 $ per 1K   *)
(* tokens is 30 micro-dollars per token), so costs are exact integers;     *)
(* JavaScript null/undefined is Null; a text is represented by the two     *)
(* quantities countTokens reads from it, [words, chars]; a calendar date   *)
(* string YYYY-MM-DD is the triple <<y, m, d>>, a month string <<y, m>>.   *)
(***************************************************************************)
EXTENDS Integers, Sequences, FiniteSets, TLC

VARIABLES
  now,          \* Date.now(), as milliseconds since 00:00 UTC of EpochDay
  advances,     \* number of clock advances taken (bounded)
  usage,        \* RateLimiter.usage (NoUsage while null)
  limits,       \* RateLimiter.limits
  initialized,  \* RateLimiter.initialized
  storage,      \* chrome.storage.local[storageKey] (NoData while absent)
  ioQueue,      \* chrome.storage.local requests issued and not yet completed
  ioFailures,   \* number of storage requests that ended with lastError
  call,         \* per caller: the RateLimiter call it has in flight
  callsMade,    \* number of RateLimiter calls started (bounded)
  obs,          \* history: what the operation body run by the last step read (else NoObs)
  submitted,    \* history: what the recordUsage/resetUsage calls started so far asked
                \* for, and what exportData returned
  boot,         \* history: "fresh" (nothing stored) or "restored..." (a snapshot stored)
  apiKey,       \* AIAvatarService.apiKey is set (loaded by init())
  sess,         \* per stream session: the state of its generateResponseStream call
  activeStreams,\* AIAvatarService.activeStreams: streamId -> owner of the controller
  events        \* per stream session: the messages its callbacks have sent

ledgerVars == <<usage, limits, initialized, storage, ioQueue, ioFailures,
                call, callsMade, obs, submitted>>
streamVars == <<apiKey, sess, activeStreams, events>>

-----------------------------------------------------------------------------
(* Bounds of the model *)

MaxCalls == 3
MaxAdvances == 2
MaxIOFailures == 1
MaxReads == 2
MaxReadLen == 3

\* concurrent callers of the RateLimiter API, each making one call, and a
\* caller that makes one call after the other
Callers == {"c1", "c2", "c3"}
Sequential == "seq"
\* the stream sessions, and the service's own init()
Sessions == {"s1", "s2"}
Service == "svc"
Procs == Callers \cup {Sequential} \cup Sessions \cup {Service}
StreamIds == {"x", "y"}

-----------------------------------------------------------------------------
(* JavaScript values *)

Null == 0 - 1
Undefined == 0 - 2
Infinity == 2 ^ 30
NaN == 0 - 3

\* a + b and a > b on numbers one of which may be NaN
JsAdd(a, b) == IF a = NaN \/ b = NaN THEN NaN ELSE a + b
JsGt(a, b) == a # NaN /\ b # NaN /\ a > b

\* JavaScript truthiness of a limit: null, undefined and 0 are falsy
Truthy(x) == x # Null /\ x # Undefined /\ x # 0

\* a >= b where b may be null (null converts to 0) or undefined (NaN)
JsGe(a, b) ==
  CASE b = Null -> a >= 0
    [] b = Undefined -> FALSE
    [] OTHER -> a >= b

\* a period of the limits that is null or undefined instead of an object
NullPeriod == [null |-> TRUE]

MinOf(s) == IF Len(s) = 0 THEN Infinity
            ELSE CHOOSE x \in {s[i] : i \in 1..Len(s)} :
                   \A y \in {s[i] : i \in 1..Len(s)} : x <= y

SelectSeqGt(s, bound) == SelectSeq(s, LAMBDA timestamp : timestamp > bound)

-----------------------------------------------------------------------------
(* Wall clock and period keys *)

MsPerSecond == 10 * 100
MsPerMinute == 60 * MsPerSecond
MsPerDay == 24 * 60 * MsPerMinute

\* proleptic Gregorian date of a day number counted from 1970-01-01
CivilFromDays(days) ==
  LET z == days + 719468
      era == z \div 146097
      doe == z - era * 146097
      yoe == (doe - doe \div 1460 + doe \div 36524 - doe \div 146096) \div 365
      doy == doe - (365 * yoe + yoe \div 4 - yoe \div 100)
      mp == (5 * doy + 2) \div 153
      d == doy - (153 * mp + 2) \div 5 + 1
      m == IF mp < 10 THEN mp + 3 ELSE mp - 9
      y == yoe + era * 400 + (IF m <= 2 THEN 1 ELSE 0)
  IN <<y, m, d>>

DaysFromCivil(y0, m, d) ==
  LET y == IF m <= 2 THEN y0 - 1 ELSE y0
      era == y \div 400
      yoe == y - era * 400
      doy == (153 * (IF m > 2 THEN m - 3 ELSE m + 9) + 2) \div 5 + d - 1
      doe == yoe * 365 + yoe \div 4 - yoe \div 100 + doy
  IN era * 146097 + doe - 719468

\* Timestamps are kept as milliseconds since 00:00 UTC of EpochDay, a day
\* number counted from 1970-01-01: the code only subtracts timestamps from
\* each other and formats them as dates (TLC integers are 32 bits wide).
EpochDay == DaysFromCivil(2024, 1, 30)

\* date.toISOString().split('T')[0]
getDateString(t) == CivilFromDays(EpochDay + t \div MsPerDay)

\* date.toISOString().slice(0, 7)
getMonthString(t) == <<getDateString(t)[1], getDateString(t)[2]>>

-----------------------------------------------------------------------------
(* Pricing table *)

\* rates in micro-dollars per token (source: dollars per 1K tokens)
models ==
  [m \in {"gpt-4", "gpt-4-turbo", "claude-3-opus", "claude-3-sonnet"} |->
     CASE m = "gpt-4" -> [prompt |-> 30, completion |-> 60, contextWindow |-> 8192]
       [] m = "gpt-4-turbo" -> [prompt |-> 10, completion |-> 30, contextWindow |-> 128000]
       [] m = "claude-3-opus" -> [prompt |-> 15, completion |-> 75, contextWindow |-> 200000]
       [] m = "claude-3-sonnet" -> [prompt |-> 3, completion |-> 15, contextWindow |-> 200000]]

\* names this.models[model] finds on Object.prototype, the table being an
\* object literal: the value found is truthy and has no prompt, completion or
\* contextWindow property
InheritedKeys == {"constructor", "toString", "__proto__"}

\* (tokens / 1000) * undefined is NaN for an inherited value
calculateCost(model, promptTokens, completionTokens) ==
  IF model \in DOMAIN models
    THEN promptTokens * models[model].prompt + completionTokens * models[model].completion
  ELSE IF model \in InheritedKeys THEN NaN
  ELSE 0

\* Math.ceil((words * 1.3 + chars / 4) / 2), 0 for an empty text
countTokens(text) ==
  IF text.chars = 0 THEN 0
  ELSE (26 * text.words + 5 * text.chars + 39) \div 40

-----------------------------------------------------------------------------
(* Usage ledger *)

NoUsage == [null |-> TRUE]
NoData == [null |-> TRUE]

ZeroTokens == [prompt |-> 0, completion |-> 0, total |-> 0]
ZeroEntry == [tokens |-> ZeroTokens, requests |-> 0, cost |-> 0]

EmptyDaily(t) ==
  [date |-> getDateString(t), tokens |-> ZeroTokens, requests |-> 0, cost |-> 0,
   modelBreakdown |-> <<>>]

EmptyMonthly(t) ==
  [month |-> getMonthString(t), tokens |-> ZeroTokens, requests |-> 0, cost |-> 0,
   modelBreakdown |-> <<>>]

createEmptyUsage(t) ==
  [daily |-> EmptyDaily(t),
   monthly |-> EmptyMonthly(t),
   minutely |-> [timestamp |-> t, requests |-> <<>>],
   lifetime |-> [tokens |-> ZeroTokens, requests |-> 0, cost |-> 0, startDate |-> t,
                 modelBreakdown |-> <<>>]]

\* the += statements of recordUsage on one counter triple
\* a variant that leaves the completion tokens out of the total
AddTokens_PromptOnly(tokens, promptTokens, completionTokens) ==
  [prompt |-> tokens.prompt + promptTokens,
   completion |-> tokens.completion + completionTokens,
   total |-> tokens.total + promptTokens]

AddTokens(tokens, promptTokens, completionTokens) ==
  LET totalTokens == promptTokens + completionTokens
  IN [prompt |-> tokens.prompt + promptTokens,
      completion |-> tokens.completion + completionTokens,
      total |-> tokens.total + totalTokens]

AddEntry(e, promptTokens, completionTokens, cost) ==
  [e EXCEPT !.tokens = AddTokens(@, promptTokens, completionTokens),
            !.requests = @ + 1,
            !.cost = @ + cost]

\* the update of one scope (daily, monthly or lifetime) and of its modelBreakdown
AddToScope(scope, model, promptTokens, completionTokens, cost) ==
  LET mb == IF model \in DOMAIN scope.modelBreakdown
            THEN scope.modelBreakdown
            ELSE (model :> ZeroEntry) @@ scope.modelBreakdown
      s1 == AddEntry(scope, promptTokens, completionTokens, cost)
  IN [s1 EXCEPT !.modelBreakdown =
        [mb EXCEPT ![model] = AddEntry(@, promptTokens, completionTokens, cost)]]

\* the synchronous part of recordUsage, from the destructuring to the prune
recordUsageBody(u, usageInfo, t) ==
  LET model == usageInfo.model
      p == usageInfo.promptTokens
      c == usageInfo.completionTokens
      cost == calculateCost(model, p, c)
      oneMinuteAgo == t - 60000
  IN [u EXCEPT
        !.daily = AddToScope(@, model, p, c, cost),
        !.monthly = AddToScope(@, model, p, c, cost),
        !.lifetime = AddToScope(@, model, p, c, cost),
        !.minutely.requests = SelectSeqGt(Append(@, t), oneMinuteAgo)]

resetUsageBody(u, period, t) ==
  IF period = "daily" THEN [u EXCEPT !.daily = EmptyDaily(t)]
  ELSE IF period = "monthly" THEN [u EXCEPT !.monthly = EmptyMonthly(t)]
  ELSE u

\* checkAndResetPeriods up to its save: the new usage and needsSave
checkAndResetPeriods(u, t) ==
  LET dailyStale == u.daily.date # getDateString(t)
      monthlyStale == u.monthly.month # getMonthString(t)
      u1 == IF dailyStale THEN [u EXCEPT !.daily = EmptyDaily(t)] ELSE u
      u2 == IF monthlyStale THEN [u1 EXCEPT !.monthly = EmptyMonthly(t)] ELSE u1
  IN [usage |-> u2, needsSave |-> dailyStale \/ monthlyStale]

-----------------------------------------------------------------------------
(* Admission *)

Allowed == [allowed |-> TRUE, limitType |-> "none", retryAfter |-> Null]
Denied(kind, retry) == [allowed |-> FALSE, limitType |-> kind, retryAfter |-> retry]
\* no decision: reading a limit of a null period throws a TypeError
Thrown == [allowed |-> FALSE, limitType |-> "TypeError", retryAfter |-> Null]

checkMinuteLimit(u, lim, t) ==
  LET currentRequests == Len(u.minutely.requests)
  IN IF lim.perMinute = NullPeriod THEN Thrown
     ELSE IF JsGe(currentRequests, lim.perMinute.requests)
     THEN Denied("rate",
                 IF currentRequests = 0 THEN Infinity
                 ELSE 60 - ((t - MinOf(u.minutely.requests)) \div 1000))
     ELSE Allowed

\* a variant that looks at the daily cost before the daily tokens
checkDailyLimits_CostFirst(u, lim, tokens, cost) ==
  LET daily == u.daily
      l == lim.daily
  IN IF l = NullPeriod THEN Thrown
     ELSE IF Truthy(l.cost) /\ JsGt(JsAdd(daily.cost, cost), l.cost)
       THEN Denied("daily_cost", Null)
     ELSE IF Truthy(l.tokens) /\ daily.tokens.total + tokens > l.tokens
       THEN Denied("daily_tokens", Null)
     ELSE IF Truthy(l.requests) /\ daily.requests + 1 > l.requests
       THEN Denied("daily_requests", Null)
     ELSE Allowed

\* a variant that denies already when the limit is reached exactly
checkDailyLimits_Ge(u, lim, tokens, cost) ==
  LET daily == u.daily
      l == lim.daily
  IN IF l = NullPeriod THEN Thrown
     ELSE IF Truthy(l.tokens) /\ daily.tokens.total + tokens >= l.tokens
       THEN Denied("daily_tokens", Null)
     ELSE IF Truthy(l.requests) /\ daily.requests + 1 > l.requests
       THEN Denied("daily_requests", Null)
     ELSE IF Truthy(l.cost) /\ JsGt(JsAdd(daily.cost, cost), l.cost)
       THEN Denied("daily_cost", Null)
     ELSE Allowed

checkDailyLimits(u, lim, tokens, cost) ==
  LET daily == u.daily
      l == lim.daily
  IN IF l = NullPeriod THEN Thrown
     ELSE IF Truthy(l.tokens) /\ daily.tokens.total + tokens > l.tokens
       THEN Denied("daily_tokens", Null)
     ELSE IF Truthy(l.requests) /\ daily.requests + 1 > l.requests
       THEN Denied("daily_requests", Null)
     ELSE IF Truthy(l.cost) /\ JsGt(JsAdd(daily.cost, cost), l.cost)
       THEN Denied("daily_cost", Null)
     ELSE Allowed

checkMonthlyLimits(u, lim, tokens, cost) ==
  LET monthly == u.monthly
      l == lim.monthly
  IN IF l = NullPeriod THEN Thrown
     ELSE IF Truthy(l.tokens) /\ monthly.tokens.total + tokens > l.tokens
       THEN Denied("monthly_tokens", Null)
     ELSE IF Truthy(l.requests) /\ monthly.requests + 1 > l.requests
       THEN Denied("monthly_requests", Null)
     ELSE IF Truthy(l.cost) /\ JsGt(JsAdd(monthly.cost, cost), l.cost)
       THEN Denied("monthly_cost", Null)
     ELSE Allowed

\* checkRequest after `await this.initialize()`
checkRequestBody(u, lim, requestInfo, t) ==
  LET model == requestInfo.model
      estimatedCompletion == requestInfo.estimatedCompletion
      promptTokens == countTokens(requestInfo.prompt)
      totalTokens == promptTokens + estimatedCompletion
      estimatedCost == calculateCost(model, promptTokens, estimatedCompletion)
      minuteCheck == checkMinuteLimit(u, lim, t)
      dailyCheck == checkDailyLimits(u, lim, totalTokens, estimatedCost)
      monthlyCheck == checkMonthlyLimits(u, lim, totalTokens, estimatedCost)
  IN IF ~minuteCheck.allowed THEN minuteCheck
     ELSE IF ~dailyCheck.allowed THEN dailyCheck
     ELSE IF ~monthlyCheck.allowed THEN monthlyCheck
     ELSE IF model \in DOMAIN models /\ promptTokens > models[model].contextWindow
       THEN Denied("context", Null)
     ELSE Allowed

-----------------------------------------------------------------------------
(* Inputs *)

\* quota policies the limiter may be constructed with (config.limits)
DefaultLimits ==
  [daily |-> [tokens |-> 100000, requests |-> 1000, cost |-> 10000000],
   monthly |-> [tokens |-> 2000000, requests |-> 20000, cost |-> 200000000],
   perMinute |-> [requests |-> 20]]

Policy(dt, dr, dc, mt, mr, mc, pm) ==
  [daily |-> [tokens |-> dt, requests |-> dr, cost |-> dc],
   monthly |-> [tokens |-> mt, requests |-> mr, cost |-> mc],
   perMinute |-> [requests |-> pm]]

\* policies under which each kind of denial is the first one met
RatePolicy == [DefaultLimits EXCEPT !.perMinute.requests = 1]
TightPolicy == Policy(100, 1, 3000, 100, 1, 3000, 20)
RequestsPolicy == Policy(100000, 1, 3000, 100000, 1, 3000, 20)
CostPolicy == Policy(100000, 1000, 3000, 100000, 1000, 3000, 2)
MonthlyPolicy == Policy(100000, 1000, 10000000, 100, 1, 3000, 20)

LimitPolicies == {RatePolicy, TightPolicy, RequestsPolicy, CostPolicy, MonthlyPolicy}

SmallPrompt == [words |-> 1, chars |-> 2]
HugePrompt == [words |-> 1, chars |-> 70000]

RecordInputs ==
  { [model |-> "gpt-4", promptTokens |-> 100, completionTokens |-> 0],
    [model |-> "gpt-4", promptTokens |-> 50, completionTokens |-> 45] }

SmallRequest == [model |-> "gpt-4", prompt |-> SmallPrompt, estimatedCompletion |-> 9]
HugeRequest == [model |-> "gpt-4", prompt |-> HugePrompt, estimatedCompletion |-> 9]
ExactRequest == [model |-> "gpt-4", prompt |-> SmallPrompt, estimatedCompletion |-> 4]
CheckInputs == {SmallRequest, ExactRequest, HugeRequest}

\* requests for models the pricing table has no entry for
UnlistedRequest == [model |-> "gpt-5", prompt |-> SmallPrompt, estimatedCompletion |-> 9]
UnlistedHugeRequest == [model |-> "gpt-5", prompt |-> HugePrompt, estimatedCompletion |-> 9]
InheritedRequest == [model |-> "constructor", prompt |-> SmallPrompt, estimatedCompletion |-> 9]
PricingInputs == {UnlistedRequest, UnlistedHugeRequest, InheritedRequest}

ResetInputs == {"daily", "monthly"}

\* the clock starts 40 s before the end of 2024-01-30 (UTC)
StartTime == MsPerDay - 40 * MsPerSecond
TickMs == 40 * MsPerSecond

\* a snapshot left in storage by an earlier run of the extension, one day before
EarlierSnapshot ==
  LET t == StartTime - MsPerDay
  IN recordUsageBody(createEmptyUsage(t),
       [model |-> "gpt-4", promptTokens |-> 100, completionTokens |-> 0], t)

\* a snapshot left by a run an hour before
TodaysSnapshot ==
  LET t == StartTime - 3600 * MsPerSecond
  IN recordUsageBody(createEmptyUsage(t),
       [model |-> "gpt-4", promptTokens |-> 100, completionTokens |-> 0], t)

\* what chrome.storage.local holds under the storage key when the worker starts
Stored(history) ==
  CASE history = "fresh" -> NoData
    [] history = "restored" -> [usage |-> EarlierSnapshot]
    [] history = "restoredToday" -> [usage |-> TodaysSnapshot]

-----------------------------------------------------------------------------
(* RateLimiter calls as processes *)

NoDecision == [allowed |-> FALSE, limitType |-> "pending", retryAfter |-> Null]
NoArgs == [none |-> TRUE]
IdleCall == [op |-> "none", args |-> NoArgs, pc |-> "idle", status |-> "none"]
Done(c, status) == [IdleCall EXCEPT !.op = c.op, !.pc = "done", !.status = status]
NoObs == [op |-> "none"]

\* the object exportData returned: usage is the content this.usage had at that
\* moment; the object's usage property is this.usage itself, not a copy
NoExport == [taken |-> FALSE]
ExportedData(u, lim) == [taken |-> TRUE, usage |-> u, limits |-> lim]

GetRequest(p) == [p |-> p, kind |-> "get", data |-> NoData]
SetRequest(p, u) == [p |-> p, kind |-> "set", data |-> [usage |-> u]]
\* a write under the key 'rateLimiterConfig', which nothing reads back
ConfigRequest(p) == [p |-> p, kind |-> "setConfig", data |-> NoData]

\* the limiter's state after a step of process p, and p's call record
Outcome(u, i, st, q, c, o) ==
  [usage |-> u, initialized |-> i, storage |-> st, ioQueue |-> q, call |-> c, obs |-> o]

\* the code of an operation after `await this.initialize()` has returned,
\* up to its next storage request; u is this.usage at that moment
Body(p, c, u, st, q) ==
  LET o == [op |-> c.op, p |-> p, args |-> c.args, usage |-> u, limits |-> limits,
            now |-> now, initialized |-> initialized, decision |-> NoDecision]
  IN CASE c.op = "recordUsage" ->
            LET u2 == recordUsageBody(u, c.args, now)
            IN Outcome(u2, TRUE, st, Append(q, SetRequest(p, u2)),
                       [c EXCEPT !.pc = "saveUsage"], o)
       [] c.op = "resetUsage" ->
            LET u2 == resetUsageBody(u, c.args, now)
            IN Outcome(u2, TRUE, st, Append(q, SetRequest(p, u2)),
                       [c EXCEPT !.pc = "saveUsage"], o)
       [] c.op = "checkRequest" ->
            LET d == checkRequestBody(u, limits, c.args, now)
            IN Outcome(u, TRUE, st, q,
                       Done(c, IF d = Thrown THEN "rejected" ELSE "resolved"),
                       [o EXCEPT !.decision = d])
       [] OTHER ->  \* initialize called on its own
            Outcome(u, TRUE, st, q, Done(c, "resolved"), NoObs)

\* an operation is called: initialize() runs up to its storage read, or, when
\* the limiter is initialized already, the operation's body runs at once
StartCall(p, op, args) ==
  LET c == [IdleCall EXCEPT !.op = op, !.args = args]
  IN IF initialized
     THEN Body(p, c, usage, storage, ioQueue)
     ELSE Outcome(usage, FALSE, storage, Append(ioQueue, GetRequest(p)),
                  [c EXCEPT !.pc = "getFromStorage"], NoObs)

\* the oldest storage request completes (ok, or with chrome.runtime.lastError)
\* and the process that awaits it runs on
IOStep(p, ok) ==
  LET req == Head(ioQueue)
      q == Tail(ioQueue)
      c == call[p]
  IN CASE c.pc = "getFromStorage" ->
            IF ~ok
            THEN Body(p, c, createEmptyUsage(now), storage, q)
            ELSE IF storage # NoData
            THEN LET r == checkAndResetPeriods(storage.usage, now)
                 IN IF r.needsSave
                    THEN Outcome(r.usage, FALSE, storage, Append(q, SetRequest(p, r.usage)),
                                 [c EXCEPT !.pc = "init_saveUsage"], NoObs)
                    ELSE Body(p, c, r.usage, storage, q)
            ELSE LET e == createEmptyUsage(now)
                 IN Outcome(e, FALSE, storage, Append(q, SetRequest(p, e)),
                            [c EXCEPT !.pc = "init_saveUsage"], NoObs)
       [] c.pc = "init_saveUsage" ->
            IF ok THEN Body(p, c, usage, req.data, q)
            ELSE Body(p, c, createEmptyUsage(now), storage, q)
       [] c.pc = "saveUsage" ->
            IF ok
            THEN Outcome(usage, initialized, req.data, q, Done(c, "resolved"), NoObs)
            ELSE Outcome(usage, initialized, storage, q, Done(c, "rejected"), NoObs)
       [] c.pc = "saveConfig" ->
            Outcome(usage, initialized, storage, q,
                    Done(c, IF ok THEN "resolved" ELSE "rejected"), NoObs)
       [] c.pc = "import_saveUsage" ->
            IF ok
            THEN Outcome(usage, initialized, req.data, Append(q, ConfigRequest(p)),
                         [c EXCEPT !.pc = "saveConfig"], NoObs)
            ELSE Outcome(usage, initialized, storage, q, Done(c, "rejected"), NoObs)

Apply(p, r) ==
  /\ usage' = r.usage
  /\ initialized' = r.initialized
  /\ storage' = r.storage
  /\ ioQueue' = r.ioQueue
  /\ call' = [call EXCEPT ![p] = r.call]
  /\ obs' = r.obs

-----------------------------------------------------------------------------
(* Actions: direct use of the RateLimiter API *)

Busy(p) == call[p].pc \notin {"idle", "done"}

\* the concurrent callers start in the order c1, c2, c3, one call each; the
\* sequential caller starts a call when its last one has returned
CanCall(p) ==
  IF p = Sequential
  THEN ~Busy(p) /\ callsMade < MaxCalls
  ELSE /\ call[p].pc = "idle"
       /\ p = "c2" => call["c1"].pc # "idle"
       /\ p = "c3" => call["c2"].pc # "idle"

Submit(op, args) ==
  CASE op = "recordUsage" ->
         [submitted EXCEPT !.requests = @ + 1,
                           !.tokens = @ + args.promptTokens + args.completionTokens]
    [] op = "resetUsage" -> [submitted EXCEPT !.resets = @ + 1]
    [] OTHER -> submitted

Started(p, op, args) ==
  /\ callsMade' = callsMade + 1
  /\ submitted' = Submit(op, args)
  /\ Apply(p, StartCall(p, op, args))
  /\ UNCHANGED <<now, advances, limits, ioFailures, boot, streamVars>>

CallInitialize(p) ==
  /\ CanCall(p)
  /\ Started(p, "initialize", NoArgs)

CallRecordUsage(p, usageInfo) ==
  /\ CanCall(p)
  /\ Started(p, "recordUsage", usageInfo)

CallCheckRequest(p, requestInfo) ==
  /\ CanCall(p)
  /\ Started(p, "checkRequest", requestInfo)

CallResetUsage(p, period) ==
  /\ CanCall(p)
  /\ Started(p, "resetUsage", period)

\* { ...this.limits, ...newLimits }: a shallow merge, period by period
MergeLimits(old, newLimits) ==
  [k \in DOMAIN old \cup DOMAIN newLimits |->
     IF k \in DOMAIN newLimits THEN newLimits[k] ELSE old[k]]

\* updateLimits: the limits are replaced at once, then saved under the
\* configuration key (initialize is not called)
CallUpdateLimits(p, newLimits) ==
  /\ CanCall(p)
  /\ callsMade' = callsMade + 1
  /\ limits' = MergeLimits(limits, newLimits)
  /\ ioQueue' = Append(ioQueue, ConfigRequest(p))
  /\ call' = [call EXCEPT ![p] = [IdleCall EXCEPT !.op = "updateLimits", !.pc = "saveConfig"]]
  /\ obs' = NoObs
  /\ UNCHANGED <<now, advances, usage, initialized, storage, ioFailures, submitted, boot,
                 streamVars>>

\* exportData on an initialized limiter: `await this.initialize()` returns at
\* once and the caller gets the object
CallExportData(p) ==
  /\ CanCall(p)
  /\ initialized
  /\ ~submitted.exported.taken
  /\ submitted' = [submitted EXCEPT !.exported = ExportedData(usage, limits)]
  /\ call' = [call EXCEPT ![p] = Done([IdleCall EXCEPT !.op = "exportData"], "resolved")]
  /\ obs' = NoObs
  /\ UNCHANGED <<now, advances, usage, limits, initialized, storage, ioQueue, ioFailures,
                 callsMade, boot, streamVars>>

\* importData(data) with the object exportData returned: data.usage is the
\* object this.usage refers to, with all that was recorded in it since, so
\* `this.usage = data.usage` assigns the ledger to itself; data.limits is the
\* limits object of the time of the export; then the two saves
CallImportData(p) ==
  /\ CanCall(p)
  /\ submitted.exported.taken
  /\ callsMade' = callsMade + 1
  /\ usage' = usage
  /\ limits' = submitted.exported.limits
  /\ ioQueue' = Append(ioQueue, SetRequest(p, usage))
  /\ call' = [call EXCEPT ![p] = [IdleCall EXCEPT !.op = "importData",
                                                  !.pc = "import_saveUsage"]]
  /\ obs' = NoObs
  /\ UNCHANGED <<now, advances, initialized, storage, ioFailures, submitted, boot,
                 streamVars>>

StorageCompletes(p) ==
  /\ Len(ioQueue) > 0
  /\ Head(ioQueue).p = p
  /\ Apply(p, IOStep(p, TRUE))
  /\ UNCHANGED <<now, advances, limits, ioFailures, callsMade, submitted, boot, streamVars>>

StorageFails(p) ==
  /\ Len(ioQueue) > 0
  /\ Head(ioQueue).p = p
  /\ ioFailures < MaxIOFailures
  /\ ioFailures' = ioFailures + 1
  /\ Apply(p, IOStep(p, FALSE))
  /\ UNCHANGED <<now, advances, limits, callsMade, submitted, boot, streamVars>>

Advance(d) ==
  /\ advances < MaxAdvances
  /\ now' = now + d
  /\ advances' = advances + 1
  /\ obs' = NoObs
  /\ UNCHANGED <<usage, limits, initialized, storage, ioQueue, ioFailures,
                 call, callsMade, submitted, boot, streamVars>>

\* the clock moves on by 40 seconds, or by a day
Tick == Advance(TickMs)
NextDay == Advance(MsPerDay)

vars == <<now, advances, ledgerVars, boot, streamVars>>

InitCommon ==
  /\ now = StartTime
  /\ advances = 0
  /\ usage = NoUsage
  /\ initialized = FALSE
  /\ storage = Stored(boot)
  /\ ioQueue = <<>>
  /\ ioFailures = 0
  /\ call = [p \in Procs |-> IdleCall]
  /\ callsMade = 0
  /\ obs = NoObs
  /\ submitted = [requests |-> 0, tokens |-> 0, resets |-> 0, exported |-> NoExport]

-----------------------------------------------------------------------------
(* The service worker: stream sessions of AIAvatarService *)

NoController == "none"
NoTokenUsage == [prompt_tokens |-> 0, completion_tokens |-> 0, total_tokens |-> 0]
NoText == <<>>

\* a string as rateLimiter.countTokens sees it: split(/\s+/) gives one more
\* piece than there are runs of whitespace
TextOf(str) ==
  [words |-> 1 + Cardinality({i \in 1..Len(str) :
                                str[i] = " " /\ (i = 1 \/ str[i - 1] # " ")}),
   chars |-> Len(str)]

\* a session before its generateResponseStream message has arrived
IdleSession ==
  [pc |-> "idle", streamId |-> "none", prompt |-> SmallPrompt, aborted |-> FALSE,
   accumulatedContent |-> NoText, tokenUsage |-> NoTokenUsage, reads |-> 0,
   fetches |-> 0, records |-> 0, denied |-> FALSE, cancelled |-> "no",
   body |-> <<>>, pos |-> 0, buffer |-> <<>>]

\* messages sent with chrome.runtime.sendMessage by a session's callbacks
StreamChunk(sid, chunk, accumulated) ==
  [action |-> "streamChunk", streamId |-> sid, content |-> chunk,
   accumulated |-> accumulated, error |-> "", usage |-> NoTokenUsage]
StreamError(sid, message) ==
  [action |-> "streamError", streamId |-> sid, content |-> NoText,
   accumulated |-> NoText, error |-> message, usage |-> NoTokenUsage]
StreamComplete(sid, content, tokenUsage) ==
  [action |-> "streamComplete", streamId |-> sid, content |-> content,
   accumulated |-> content, error |-> "", usage |-> tokenUsage]

\* W is the service's state: [sess, activeStreams, events]
sendMessage(W, s, e) == [W EXCEPT !.events[s] = Append(@, e)]

\* errors thrown inside callOpenAIStream
AbortError == [name |-> "AbortError", message |-> "The user aborted a request."]
FailedToFetch == [name |-> "TypeError", message |-> "Failed to fetch"]
ReadTimeoutError == [name |-> "Error", message |-> "Read timeout"]
HttpError == [name |-> "Error", message |-> "API request failed"]
\* thrown by checkRequest when a period of the limits is null
LimitsTypeError == [name |-> "TypeError", message |-> "Cannot read properties of null"]

\* the message callOpenAIStream's catch hands to onError
userFriendlyError(error) ==
  CASE error.name = "AbortError" -> "Stream aborted by user"
    [] error.message = "Failed to fetch" ->
         "Network error. Please check your connection and try again."
    [] error.message = "Read timeout" -> "Request timed out. Please try again."
    [] OTHER -> error.message

\* a variant in which the aborted session reports and goes on reading
Aborted_KeepsReading(W, o) ==
  LET sid == W.sess[o].streamId
      W2 == sendMessage(W, o, StreamError(sid, userFriendlyError(AbortError)))
  IN sendMessage(W2, o, StreamError(sid, AbortError.message))

\* the catch blocks of a session whose controller abortStream has just
\* aborted and forgotten: both call onError, whose own abortStream finds no
\* entry under the session's id any more
Aborted(W, o) ==
  LET sid == W.sess[o].streamId
      W1 == [W EXCEPT !.sess[o].pc = "closed"]
      W2 == sendMessage(W1, o, StreamError(sid, userFriendlyError(AbortError)))
  IN sendMessage(W2, o, StreamError(sid, AbortError.message))

\* a variant of abortStream that aborts the controller and keeps the entry
abortStream_KeepsEntry(W, sid) ==
  LET o == W.activeStreams[sid]
  IN IF o = NoController THEN W
     ELSE LET W1 == [W EXCEPT !.sess[o].aborted = TRUE]
          IN IF W.sess[o].pc \in {"connecting", "reading"} /\ ~W.sess[o].aborted
             THEN Aborted(W1, o)
             ELSE W1

\* AIAvatarService.abortStream: abort the controller registered under the id
\* and forget it; a session that awaits its fetch or a read on that
\* controller's signal is rejected with an AbortError
abortStream(W, sid) ==
  LET o == W.activeStreams[sid]
  IN IF o = NoController THEN W
     ELSE LET W1 == [W EXCEPT !.sess[o].aborted = TRUE,
                              !.activeStreams[sid] = NoController]
          IN IF W.sess[o].pc \in {"connecting", "reading"} /\ ~W.sess[o].aborted
             THEN Aborted(W1, o)
             ELSE W1

\* the onError callback the message listener gives to a session
onError(W, s, message) ==
  LET sid == W.sess[s].streamId
  IN abortStream(sendMessage(W, s, StreamError(sid, message)), sid)

\* the fetch or a read of session s rejects: the catch of callOpenAIStream
\* reports and rethrows, then the catch of generateResponseStream reports
callOpenAIStreamCatch(W, s, error) == onError(W, s, userFriendlyError(error))
generateResponseStreamCatch(W, s, error) == onError(W, s, error.message)
Rejected(W, s, error) ==
  LET W1 == [W EXCEPT !.sess[s].pc = "closed"]
  IN generateResponseStreamCatch(callOpenAIStreamCatch(W1, s, error), s, error)

\* a variant that reports the denial and calls fetch all the same
AfterCheckRequest_OpensTransport(W, s, rateLimitCheck) ==
  LET W0 == IF rateLimitCheck.allowed THEN W
            ELSE onError([W EXCEPT !.sess[s].denied = TRUE], s, "Rate limit exceeded")
      W1 == [W0 EXCEPT !.sess[s].fetches = @ + 1, !.sess[s].pc = "connecting"]
  IN IF W0.sess[s].aborted THEN Rejected(W1, s, AbortError) ELSE W1

\* generateResponseStream once checkRequest has returned
AfterCheckRequest(W, s, rateLimitCheck) ==
  IF rateLimitCheck = Thrown
  THEN generateResponseStreamCatch([W EXCEPT !.sess[s].pc = "closed"], s, LimitsTypeError)
  ELSE IF ~rateLimitCheck.allowed
  THEN onError([W EXCEPT !.sess[s].pc = "closed", !.sess[s].denied = TRUE], s,
               "Rate limit exceeded")
  ELSE LET W1 == [W EXCEPT !.sess[s].fetches = @ + 1, !.sess[s].pc = "connecting"]
       IN IF W.sess[s].aborted THEN Rejected(W1, s, AbortError) ELSE W1

\* a variant whose onComplete callback sends the event and leaves the
\* controller registered
AfterRecordUsage_KeepsEntry(W, s, status) ==
  LET x == W.sess[s]
  IN IF status = "resolved"
     THEN sendMessage([W EXCEPT !.sess[s].pc = "closed"], s,
                      StreamComplete(x.streamId, x.accumulatedContent, x.tokenUsage))
     ELSE [W EXCEPT !.sess[s].pc = "unhandledRejection"]

\* the onComplete callbacks once recordUsage has returned
AfterRecordUsage(W, s, status) ==
  LET x == W.sess[s]
  IN IF status = "resolved"
     THEN abortStream(
            sendMessage([W EXCEPT !.sess[s].pc = "closed"], s,
                        StreamComplete(x.streamId, x.accumulatedContent, x.tokenUsage)),
            x.streamId)
     ELSE [W EXCEPT !.sess[s].pc = "unhandledRejection"]

\* frames of the response body, as the lines of one read decode to
ContentFrame(chunk) == [content |-> chunk, usage |-> NoTokenUsage]
UsageFrame(u) == [content |-> NoText, usage |-> u]
ReportedUsage == [prompt_tokens |-> 500, completion_tokens |-> 100, total_tokens |-> 600]
\* usage objects a stream may carry before its last one, and one whose total
\* is 0; in the text of a body a usage object is written as its name
EarlyUsage == [prompt_tokens |-> 500, completion_tokens |-> 40, total_tokens |-> 540]
ZeroTotalUsage == [prompt_tokens |-> 7, completion_tokens |-> 3, total_tokens |-> 0]
UsagePieces == {"usage", "usage1", "usage0"}
UsageNamed(piece) ==
  IF piece = "usage" THEN ReportedUsage
  ELSE IF piece = "usage1" THEN EarlyUsage
  ELSE ZeroTotalUsage
PieceOf(u) == CHOOSE piece \in UsagePieces : UsageNamed(piece) = u
ReadInputs ==
  { <<ContentFrame(<<"a">>)>>,
    <<ContentFrame(<<" ", "b">>), UsageFrame(ReportedUsage)>> }

\* a variant that reports the delta as the accumulated text
ProcessLine_Overwrites(W, s, f) ==
  LET x == W.sess[s]
      W1 == IF f.content # NoText
            THEN sendMessage([W EXCEPT !.sess[s].accumulatedContent = f.content], s,
                             StreamChunk(x.streamId, f.content, f.content))
            ELSE W
  IN IF f.usage # NoTokenUsage
     THEN [W1 EXCEPT !.sess[s].tokenUsage = f.usage]
     ELSE W1

\* one data line of a read: a content delta is appended and reported, a
\* usage object replaces tokenUsage
ProcessLine(W, s, f) ==
  LET x == W.sess[s]
      acc == x.accumulatedContent \o f.content
      W1 == IF f.content # NoText
            THEN sendMessage([W EXCEPT !.sess[s].accumulatedContent = acc], s,
                             StreamChunk(x.streamId, f.content, acc))
            ELSE W
  IN IF f.usage # NoTokenUsage
     THEN [W1 EXCEPT !.sess[s].tokenUsage = f.usage]
     ELSE W1

\* the for loop over the lines of one read
ProcessLines(W, s, frames) ==
  LET after[i \in 0..Len(frames)] ==
        IF i = 0 THEN W ELSE ProcessLine(after[i - 1], s, frames[i])
  IN after[Len(frames)]

\* The response body as text. A text is a sequence of pieces: "\n", the
\* prefix "data: ", "[DONE]", ":" and the pieces of a JSON payload; a read
\* delivers some pieces, so a read may end inside a line.
Newline == "\n"
NoFrame == [content |-> NoText, usage |-> NoTokenUsage]

\* the positions of the newlines of a text, and the k-th of them
NewlinesOf(text) == {i \in 1..Len(text) : text[i] = Newline}
NthNewline(text, k) ==
  CHOOSE i \in NewlinesOf(text) : Cardinality({j \in NewlinesOf(text) : j <= i}) = k

\* a variant that keeps no incomplete line for the next read
SplitLines_NoCarry(text) ==
  LET n == Cardinality(NewlinesOf(text))
  IN [lines |-> [k \in 1..n |->
                   SubSeq(text, IF k = 1 THEN 1 ELSE NthNewline(text, k - 1) + 1,
                          NthNewline(text, k) - 1)],
      rest |-> <<>>]

\* buffer.split('\n') and lines.pop(): the complete lines and the rest
SplitLines(text) ==
  LET n == Cardinality(NewlinesOf(text))
  IN [lines |-> [k \in 1..n |->
                   SubSeq(text, IF k = 1 THEN 1 ELSE NthNewline(text, k - 1) + 1,
                          NthNewline(text, k) - 1)],
      rest |-> IF n = 0 THEN text ELSE SubSeq(text, NthNewline(text, n) + 1, Len(text))]

\* JSON.parse of the payload of a data line: a content delta, a usage
\* object, or a SyntaxError, which the loop catches and ignores
ParseData(data) ==
  IF Len(data) = 3 /\ data[1] = "{" /\ data[3] = "}"
  THEN IF data[2] \in UsagePieces THEN UsageFrame(UsageNamed(data[2]))
       ELSE ContentFrame(<<data[2]>>)
  ELSE NoFrame

\* what one line of the loop amounts to: blank lines, comments, [DONE] and
\* lines without the data prefix are skipped
ParseLine(line) ==
  IF line = <<>> \/ line[1] = ":" \/ line[1] # "data: " THEN NoFrame
  ELSE IF Tail(line) = <<"[DONE]">> THEN NoFrame
  ELSE ParseData(Tail(line))

\* the loop body for one read that delivers the text value
DecodeRead(W, s, value) ==
  LET sp == SplitLines(W.sess[s].buffer \o value)
      frames == [k \in 1..Len(sp.lines) |-> ParseLine(sp.lines[k])]
  IN ProcessLines([W EXCEPT !.sess[s].buffer = sp.rest], s, frames)

\* "Process any remaining buffer": only a usage object is taken from it
RemainingBuffer(x) ==
  LET f == ParseLine(x.buffer)
  IN IF f.usage # NoTokenUsage THEN [x EXCEPT !.tokenUsage = f.usage] ELSE x

\* a variant that keeps a reported usage object whatever its total
FinalUsage_KeepsReported(x) ==
  IF x.tokenUsage = NoTokenUsage
  THEN [prompt_tokens |-> countTokens(x.prompt),
        completion_tokens |-> countTokens(TextOf(x.accumulatedContent)),
        total_tokens |-> countTokens(x.prompt) + countTokens(TextOf(x.accumulatedContent))]
  ELSE x.tokenUsage

\* the usage callOpenAIStream reports: the stream's, or an estimate
FinalUsage(x) ==
  IF x.tokenUsage.total_tokens = 0
  THEN LET p == countTokens(x.prompt)
           c == IF x.accumulatedContent = NoText THEN 0
                ELSE countTokens(TextOf(x.accumulatedContent))
       IN [prompt_tokens |-> p, completion_tokens |-> c, total_tokens |-> p + c]
  ELSE x.tokenUsage

World == [sess |-> sess, activeStreams |-> activeStreams, events |-> events]

ApplyWorld(W) ==
  /\ sess' = W.sess
  /\ activeStreams' = W.activeStreams
  /\ events' = W.events

LimiterUnchanged ==
  /\ obs' = NoObs
  /\ UNCHANGED <<usage, initialized, storage, ioQueue, call>>

StreamFrame == UNCHANGED <<now, advances, limits, callsMade, submitted, boot>>

StreamPrompts == {SmallPrompt, HugePrompt}
StreamRequest(prompt) ==
  [model |-> "gpt-4", prompt |-> prompt, estimatedCompletion |-> 1000]

\* AIAvatarService.init: the API key is read, then rateLimiter.initialize()
KeyLoaded ==
  /\ ~apiKey
  /\ call[Service].pc = "idle"
  /\ apiKey' = TRUE
  /\ Apply(Service, StartCall(Service, "initialize", NoArgs))
  /\ UNCHANGED <<sess, activeStreams, events, ioFailures>>
  /\ StreamFrame

\* a limiter call of session s has made the step r: the session runs on when
\* the call has returned
SessionStep(W, s, r) ==
  /\ Apply(s, r)
  /\ ApplyWorld(CASE r.call.pc # "done" -> W
                  [] r.call.op = "checkRequest" -> AfterCheckRequest(W, s, r.obs.decision)
                  [] OTHER -> AfterRecordUsage(W, s, r.call.status))

\* the listener registers the controller and calls generateResponseStream
Registered(s, sid, prompt, pc) ==
  [World EXCEPT !.activeStreams[sid] = s,
                !.sess[s].streamId = sid,
                !.sess[s].prompt = prompt,
                !.sess[s].pc = pc]

\* a 'generateResponseStream' message arrives
StartStream(s, sid, prompt) ==
  /\ sess[s].pc = "idle"
  /\ s = "s2" => sess["s1"].pc # "idle"
  /\ s = "s1" => sid = "x"
  /\ IF ~apiKey
     THEN /\ ApplyWorld(abortStream(Registered(s, sid, prompt, "notConfigured"), sid))
          /\ LimiterUnchanged
     ELSE SessionStep(Registered(s, sid, prompt, "checkRequest"), s,
                      StartCall(s, "checkRequest", StreamRequest(prompt)))
  /\ UNCHANGED <<apiKey, ioFailures>>
  /\ StreamFrame

\* a storage request of a session's limiter call completes
SessionIO(s, ok) ==
  /\ Len(ioQueue) > 0
  /\ Head(ioQueue).p = s
  /\ SessionStep(World, s, IOStep(s, ok))
  /\ UNCHANGED apiKey
  /\ StreamFrame

SessionStorageCompletes(s) ==
  /\ SessionIO(s, TRUE)
  /\ UNCHANGED ioFailures

SessionStorageFails(s) ==
  /\ ioFailures < MaxIOFailures
  /\ ioFailures' = ioFailures + 1
  /\ SessionIO(s, FALSE)

TransportStep(W) ==
  /\ ApplyWorld(W)
  /\ LimiterUnchanged
  /\ UNCHANGED <<apiKey, ioFailures>>
  /\ StreamFrame

\* the fetch resolves with a 200 response
FetchOk(s) ==
  /\ sess[s].pc = "connecting"
  /\ TransportStep([World EXCEPT !.sess[s].pc = "reading"])

\* the fetch resolves with a status that is not ok
FetchNotOk(s) ==
  /\ sess[s].pc = "connecting"
  /\ TransportStep(Rejected(World, s, HttpError))

\* the fetch rejects
FetchFails(s) ==
  /\ sess[s].pc = "connecting"
  /\ TransportStep(Rejected(World, s, FailedToFetch))

\* reader.read() resolves with data
ReadData(s, frames) ==
  /\ sess[s].pc = "reading"
  /\ sess[s].reads < MaxReads
  /\ TransportStep(ProcessLines([World EXCEPT !.sess[s].reads = @ + 1], s, frames))

\* the text of a frame's line, and of a response body: every line is
\* followed by an empty line, except that the last line of a body that is
\* not terminated has no newline at all
LineOf(f) ==
  IF f.content # NoText THEN <<"data: ", "{", f.content[1], "}">>
  ELSE IF f.usage # NoTokenUsage THEN <<"data: ", "{", PieceOf(f.usage), "}">>
  ELSE <<"data: ", "[DONE]">>
Encode(b) ==
  LET n == Len(b.frames)
      text[i \in 0..n] ==
        IF i = 0 THEN <<":", "ping", Newline>>
        ELSE text[i - 1] \o LineOf(b.frames[i]) \o
             (IF i < n \/ b.terminated THEN <<Newline, Newline>> ELSE <<>>)
  IN text[n]

\* the bodies a fetch may answer with
BodySpecs ==
  { [frames |-> <<ContentFrame(<<"a">>), UsageFrame(EarlyUsage), ContentFrame(<<"b">>),
                  UsageFrame(ReportedUsage), NoFrame>>, terminated |-> TRUE],
    [frames |-> <<ContentFrame(<<"a">>), UsageFrame(ReportedUsage)>>, terminated |-> FALSE],
    [frames |-> <<ContentFrame(<<"a">>), UsageFrame(ZeroTotalUsage)>>, terminated |-> TRUE],
    [frames |-> <<ContentFrame(<<"a">>), ContentFrame(<<"b">>)>>, terminated |-> FALSE] }

\* the fetch resolves with a 200 response whose body is that of b
FetchBody(s, b) ==
  /\ sess[s].pc = "connecting"
  /\ TransportStep([World EXCEPT !.sess[s].pc = "reading", !.sess[s].body = Encode(b)])

\* reader.read() resolves with the next n pieces of the response body
ReadBytes(s, n) ==
  /\ sess[s].pc = "reading"
  /\ sess[s].pos + n <= Len(sess[s].body)
  /\ TransportStep(DecodeRead([World EXCEPT !.sess[s].reads = @ + 1,
                                            !.sess[s].pos = @ + n], s,
                              SubSeq(sess[s].body, sess[s].pos + 1, sess[s].pos + n)))

\* the 30 s timer of a read fires first
ReadTimeout(s) ==
  /\ sess[s].pc = "reading"
  /\ TransportStep(Rejected(World, s, ReadTimeoutError))

\* reader.read() rejects
ReadFails(s) ==
  /\ sess[s].pc = "reading"
  /\ TransportStep(Rejected(World, s, FailedToFetch))

\* reader.read() resolves with done: usage is settled, onComplete is called
\* (not awaited) and records it
ReadDone(s) ==
  /\ sess[s].pc = "reading"
  /\ sess[s].pos = Len(sess[s].body)
  /\ LET u == FinalUsage(RemainingBuffer(sess[s]))
         r == StartCall(s, "recordUsage",
                        [model |-> "gpt-4", promptTokens |-> u.prompt_tokens,
                         completionTokens |-> u.completion_tokens])
     IN /\ Apply(s, r)
        /\ ApplyWorld([World EXCEPT !.sess[s].tokenUsage = u,
                                    !.sess[s].records = @ + 1,
                                    !.sess[s].pc = "recordUsage"])
  /\ UNCHANGED <<apiKey, ioFailures>>
  /\ StreamFrame

\* what AIAvatarService.abortStream returns: whether a controller was found
abortStreamResult(W, sid) == W.activeStreams[sid] # NoController

\* the listener's reply to an 'abortStream' message
AbortReply(sid, success) ==
  [op |-> "abortStream", streamId |-> sid, success |-> success,
   error |-> IF success THEN "" ELSE "Stream not found"]

\* the listener's 'abortStream' case; reply is what the step lets be observed
Cancel(sid, reply) ==
  /\ LET o == activeStreams[sid]
         W == IF o = NoController THEN World
              ELSE [World EXCEPT !.sess[o].cancelled = sess[o].pc]
     IN ApplyWorld(abortStream(W, sid))
  /\ obs' = reply
  /\ UNCHANGED <<usage, initialized, storage, ioQueue, call, apiKey, ioFailures>>
  /\ StreamFrame

\* an 'abortStream' message arrives for a registered stream id
CancelStream(sid) ==
  /\ activeStreams[sid] # NoController
  /\ Cancel(sid, NoObs)

\* an 'abortStream' message arrives for a stream id some session was given,
\* registered or not, and the sender reads the reply
AbortStreamMessage(sid) ==
  /\ \E s \in Sessions : sess[s].pc # "idle" /\ sess[s].streamId = sid
  /\ Cancel(sid, AbortReply(sid, abortStreamResult(World, sid)))

\* the tab a session's message came from (sender.tab.id), and what the two
\* stream ids stand for: "x" is an id the requester supplies, a timestamp
\* without any prefix; "y" is the id the listener generates for a message of
\* tab 2 that supplies none, `2-<timestamp>`
Tabs == {1, 2}
NoTab == 0
TabOf(s) == IF s = "s1" THEN 1 ELSE 2
IdOrder == <<"x", "y">>
GeneratedFor(sid) == IF sid = "y" THEN 2 ELSE NoTab
startsWith(sid, tabId) == GeneratedFor(sid) = tabId

\* AIAvatarService.abortTabStreams: every entry whose id starts with the
\* tab's prefix is aborted and deleted
abortTabStreams(W, tabId) ==
  LET step[i \in 0..Len(IdOrder)] ==
        IF i = 0 THEN W
        ELSE IF startsWith(IdOrder[i], tabId) THEN abortStream(step[i - 1], IdOrder[i])
        ELSE step[i - 1]
  IN step[Len(IdOrder)]

\* chrome.tabs.onRemoved: the tab's streams are aborted
TabRemoved(tabId) ==
  /\ \E s \in Sessions : sess[s].pc # "idle"
  /\ ApplyWorld(abortTabStreams(World, tabId))
  /\ obs' = [op |-> "tabRemoved", tabId |-> tabId]
  /\ UNCHANGED <<usage, initialized, storage, ioQueue, call, apiKey, ioFailures>>
  /\ StreamFrame

InitStreamVars ==
  /\ apiKey = FALSE
  /\ sess = [s \in Sessions |-> IdleSession]
  /\ activeStreams = [sid \in StreamIds |-> NoController]
  /\ events = [s \in Sessions |-> <<>>]

\* one recorded stream uses up the daily request quota
StreamPolicy == Policy(100000, 1, 10000000, 2000000, 20000, 200000000, 20)

InitStream ==
  /\ boot = "fresh"
  /\ limits \in {DefaultLimits, StreamPolicy}
  /\ InitCommon
  /\ InitStreamVars

NextStream ==
  \/ KeyLoaded
  \/ \E s \in Sessions, sid \in StreamIds, prompt \in StreamPrompts : StartStream(s, sid, prompt)
  \/ StorageCompletes(Service)
  \/ StorageFails(Service)
  \/ \E s \in Sessions : SessionStorageCompletes(s)
  \/ \E s \in Sessions : SessionStorageFails(s)
  \/ \E s \in Sessions : FetchOk(s)
  \/ \E s \in Sessions : FetchNotOk(s)
  \/ \E s \in Sessions : FetchFails(s)
  \/ \E s \in Sessions, frames \in ReadInputs : ReadData(s, frames)
  \/ \E s \in Sessions : ReadTimeout(s)
  \/ \E s \in Sessions : ReadFails(s)
  \/ \E s \in Sessions : ReadDone(s)
  \/ \E sid \in StreamIds : CancelStream(sid)

SpecStream == InitStream /\ [][NextStream]_vars

\* SpecCancel: the sessions of SpecStream under the default limits, with
\* 'abortStream' messages for registered and for forgotten stream ids
InitCancel ==
  /\ boot = "fresh"
  /\ limits = DefaultLimits
  /\ InitCommon
  /\ InitStreamVars

NextCancel ==
  \/ KeyLoaded
  \/ \E s \in Sessions, sid \in StreamIds, prompt \in StreamPrompts : StartStream(s, sid, prompt)
  \/ StorageCompletes(Service)
  \/ StorageFails(Service)
  \/ \E s \in Sessions : SessionStorageCompletes(s)
  \/ \E s \in Sessions : SessionStorageFails(s)
  \/ \E s \in Sessions : FetchOk(s)
  \/ \E s \in Sessions : FetchNotOk(s)
  \/ \E s \in Sessions : FetchFails(s)
  \/ \E s \in Sessions, frames \in ReadInputs : ReadData(s, frames)
  \/ \E s \in Sessions : ReadTimeout(s)
  \/ \E s \in Sessions : ReadFails(s)
  \/ \E s \in Sessions : ReadDone(s)
  \/ \E sid \in StreamIds : AbortStreamMessage(sid)

SpecCancel == InitCancel /\ [][NextCancel]_vars

\* SpecDecode: one session whose response body arrives cut into reads of
\* one to MaxReadLen pieces
NextDecode ==
  \/ KeyLoaded
  \/ StartStream("s1", "x", SmallPrompt)
  \/ StorageCompletes(Service)
  \/ SessionStorageCompletes("s1")
  \/ \E b \in BodySpecs : FetchBody("s1", b)
  \/ \E n \in 1..MaxReadLen : ReadBytes("s1", n)
  \/ ReadDone("s1")

SpecDecode == InitCancel /\ [][NextDecode]_vars

------------------------------------------------------------------------------
(* SpecTabs: two tabs with a session each, and tabs being closed *)

NextTabs ==
  \/ KeyLoaded
  \/ \E s \in Sessions, sid \in StreamIds : StartStream(s, sid, SmallPrompt)
  \/ StorageCompletes(Service)
  \/ \E s \in Sessions : SessionStorageCompletes(s)
  \/ \E s \in Sessions : FetchOk(s)
  \/ \E s \in Sessions, frames \in ReadInputs : ReadData(s, frames)
  \/ \E s \in Sessions : ReadDone(s)
  \/ \E tabId \in Tabs : TabRemoved(tabId)

SpecTabs == InitCancel /\ [][NextTabs]_vars

-----------------------------------------------------------------------------
(* SpecLedger: concurrent callers of one RateLimiter, storage failures, clock *)

InitLedger ==
  /\ boot \in {"fresh", "restored"}
  /\ limits = DefaultLimits
  /\ InitCommon
  /\ InitStreamVars

NextLedger ==
  \/ \E p \in Callers : CallInitialize(p)
  \/ \E p \in Callers, usageInfo \in RecordInputs : CallRecordUsage(p, usageInfo)
  \/ \E p \in Callers : CallCheckRequest(p, SmallRequest)
  \/ \E p \in Callers : CallResetUsage(p, "daily")
  \/ \E p \in Callers : StorageCompletes(p)
  \/ \E p \in Callers : StorageFails(p)
  \/ Tick

SpecLedger == InitLedger /\ [][NextLedger]_vars

-----------------------------------------------------------------------------
(* SpecAdmission: one call after the other, every quota policy *)

InitAdmission ==
  /\ boot = "fresh"
  /\ limits \in LimitPolicies
  /\ InitCommon
  /\ InitStreamVars

NextAdmission ==
  \/ \E usageInfo \in RecordInputs : CallRecordUsage(Sequential, usageInfo)
  \/ \E requestInfo \in CheckInputs : CallCheckRequest(Sequential, requestInfo)
  \/ \E period \in ResetInputs : CallResetUsage(Sequential, period)
  \/ StorageCompletes(Sequential)
  \/ Tick
  \/ NextDay

SpecAdmission == InitAdmission /\ [][NextAdmission]_vars

-----------------------------------------------------------------------------
(* SpecRollover: a worker starts on a stored snapshot of today or of the day
   before; the clock runs on into the next day and the next month *)

InitRollover ==
  /\ boot \in {"restored", "restoredToday"}
  /\ limits = DefaultLimits
  /\ InitCommon
  /\ InitStreamVars

NextRollover ==
  \/ \E usageInfo \in RecordInputs : CallRecordUsage(Sequential, usageInfo)
  \/ CallCheckRequest(Sequential, SmallRequest)
  \/ StorageCompletes(Sequential)
  \/ StorageFails(Sequential)
  \/ Tick
  \/ NextDay

SpecRollover == InitRollover /\ [][NextRollover]_vars

-----------------------------------------------------------------------------
(* SpecPricing: checks for models without an entry in the pricing table *)

InitPricing ==
  /\ boot = "fresh"
  /\ limits \in LimitPolicies
  /\ InitCommon
  /\ InitStreamVars

NextPricing ==
  \/ \E usageInfo \in RecordInputs : CallRecordUsage(Sequential, usageInfo)
  \/ \E requestInfo \in PricingInputs : CallCheckRequest(Sequential, requestInfo)
  \/ StorageCompletes(Sequential)
  \/ Tick

SpecPricing == InitPricing /\ [][NextPricing]_vars

-----------------------------------------------------------------------------
(* SpecPolicy: the limits are changed with updateLimits between calls *)

\* arguments of updateLimits: a limit set to null, a whole period set to null
NoRateLimit == [perMinute |-> [requests |-> Null]]
NoDailyLimits == [daily |-> [tokens |-> Null, requests |-> Null, cost |-> Null]]
NoMonthlyLimits == [monthly |-> [tokens |-> Null, requests |-> Null, cost |-> Null]]
NoDailyPeriod == [daily |-> NullPeriod]
UpdateInputs == {NoRateLimit, NoDailyLimits, NoMonthlyLimits, NoDailyPeriod}

InitPolicy ==
  /\ boot = "fresh"
  /\ limits \in {DefaultLimits, TightPolicy}
  /\ InitCommon
  /\ InitStreamVars

NextPolicy ==
  \/ \E newLimits \in UpdateInputs : CallUpdateLimits(Sequential, newLimits)
  \/ \E usageInfo \in RecordInputs : CallRecordUsage(Sequential, usageInfo)
  \/ CallCheckRequest(Sequential, SmallRequest)
  \/ StorageCompletes(Sequential)
  \/ StorageFails(Sequential)

SpecPolicy == InitPolicy /\ [][NextPolicy]_vars

-----------------------------------------------------------------------------
(* SpecBackup: the ledger is exported, used on, and imported again *)

InitBackup ==
  /\ boot = "fresh"
  /\ limits \in {DefaultLimits, TightPolicy}
  /\ InitCommon
  /\ InitStreamVars

NextBackup ==
  \/ \E usageInfo \in RecordInputs : CallRecordUsage(Sequential, usageInfo)
  \/ CallUpdateLimits(Sequential, NoRateLimit)
  \/ CallExportData(Sequential)
  \/ CallImportData(Sequential)
  \/ StorageCompletes(Sequential)
  \/ StorageFails(Sequential)

SpecBackup == InitBackup /\ [][NextBackup]_vars

------------------------------------------------------------------------------
(* SpecSettings: the settings panel changes the daily token and cost limits *)

\* what saveSettings sends: an object daily with the limits that were typed
\* in; reading a property it does not have gives undefined
SettingsLimits(tokens, cost) == [daily |-> [tokens |-> tokens, requests |-> Undefined, cost |-> cost]]
SettingsInputs ==
  { SettingsLimits(50000, Undefined),
    SettingsLimits(Undefined, 5000000),
    SettingsLimits(50000, 5000000) }

NextSettings ==
  \/ \E newLimits \in SettingsInputs : CallUpdateLimits(Sequential, newLimits)
  \/ \E usageInfo \in RecordInputs : CallRecordUsage(Sequential, usageInfo)
  \/ CallCheckRequest(Sequential, SmallRequest)
  \/ StorageCompletes(Sequential)

SpecSettings == InitStream /\ [][NextSettings]_vars

-----------------------------------------------------------------------------
(* Properties of the ledger under concurrent callers (SpecLedger) *)

Quiet == ioQueue = <<>> /\ \A p \in Procs : ~Busy(p)

TwoRecordsOf100 ==
  /\ Quiet
  /\ boot = "fresh"
  /\ call["c1"].op = "recordUsage" /\ call["c2"].op = "recordUsage"
  /\ call["c3"].pc = "idle"
  /\ submitted.requests = 2
  /\ submitted.tokens = 200
  /\ submitted.resets = 0
  /\ ioFailures = 0
  /\ getDateString(now) = getDateString(StartTime)

\* C1: two concurrent recordUsage calls of 100 prompt tokens each against an
\* empty, not yet initialized ledger leave daily.tokens.total = 200 and
\* daily.requests = 2, whatever the interleaving of their storage requests.
C1_NoLostUpdate ==
  TwoRecordsOf100 => usage.daily.tokens.total = 200 /\ usage.daily.requests = 2

\* C2: the counters an admission check compares against, and the counters a
\* recordUsage adds to, always carry the current date and the current month.
C2_NoStaleCounters ==
  (ioFailures = 0 /\ obs.op \in {"checkRequest", "recordUsage"} /\ obs.initialized) =>
    /\ obs.usage.daily.date = getDateString(obs.now)
    /\ obs.usage.monthly.month = getMonthString(obs.now)

TotalIsSum(tokens) == tokens.total = tokens.prompt + tokens.completion

ScopeTotalsAreSums(scope) ==
  /\ TotalIsSum(scope.tokens)
  /\ \A m \in DOMAIN scope.modelBreakdown : TotalIsSum(scope.modelBreakdown[m].tokens)

\* C7: in every reachable ledger state tokens.total = tokens.prompt +
\* tokens.completion in the daily, monthly and lifetime scopes and in every
\* modelBreakdown entry of each scope.
C7_TotalIsSum ==
  usage # NoUsage =>
    /\ ScopeTotalsAreSums(usage.daily)
    /\ ScopeTotalsAreSums(usage.monthly)
    /\ ScopeTotalsAreSums(usage.lifetime)

C7_Witness ==
  /\ usage # NoUsage
  /\ submitted.resets > 0
  /\ usage.lifetime.requests >= 2
  /\ usage.lifetime.tokens.completion > 0
  /\ "gpt-4" \in DOMAIN usage.daily.modelBreakdown
  /\ usage.daily.tokens.total < usage.lifetime.tokens.total

-----------------------------------------------------------------------------
(* Properties of the admission decision (SpecAdmission) *)

Checked == obs.op = "checkRequest"

EstPrompt == countTokens(obs.args.prompt)
EstTotal == EstPrompt + obs.args.estimatedCompletion
EstCost == calculateCost(obs.args.model, EstPrompt, obs.args.estimatedCompletion)

\* requests recorded within the 60 seconds before the check
InLastMinute == SelectSeqGt(obs.usage.minutely.requests, obs.now - 60000)

\* the checks in the order of the specification, each with its own condition
ChecksInOrder ==
  << [kind |-> "rate",
      violated |-> Len(obs.usage.minutely.requests) >= obs.limits.perMinute.requests],
     [kind |-> "daily_tokens",
      violated |-> obs.usage.daily.tokens.total + EstTotal > obs.limits.daily.tokens],
     [kind |-> "daily_requests",
      violated |-> obs.usage.daily.requests + 1 > obs.limits.daily.requests],
     [kind |-> "daily_cost",
      violated |-> obs.usage.daily.cost + EstCost > obs.limits.daily.cost],
     [kind |-> "monthly_tokens",
      violated |-> obs.usage.monthly.tokens.total + EstTotal > obs.limits.monthly.tokens],
     [kind |-> "monthly_requests",
      violated |-> obs.usage.monthly.requests + 1 > obs.limits.monthly.requests],
     [kind |-> "monthly_cost",
      violated |-> obs.usage.monthly.cost + EstCost > obs.limits.monthly.cost],
     [kind |-> "context",
      violated |-> obs.args.model \in DOMAIN models
                   /\ EstPrompt > models[obs.args.model].contextWindow] >>

ViolatedAt == {i \in 1..Len(ChecksInOrder) : ChecksInOrder[i].violated}

FirstViolated ==
  IF ViolatedAt = {} THEN "none"
  ELSE ChecksInOrder[CHOOSE i \in ViolatedAt : \A j \in ViolatedAt : i <= j].kind

\* C8: the kind of a denial is that of the first violated check in the order
\* rate, daily tokens/requests/cost, monthly tokens/requests/cost, context;
\* the request is allowed exactly when no check is violated.
C8_CheckOrder ==
  Checked =>
    /\ obs.decision.limitType = FirstViolated
    /\ obs.decision.allowed <=> ViolatedAt = {}

\* denied daily_tokens although the daily cost and a monthly limit are exceeded too
C8_Witness ==
  /\ Checked
  /\ obs.decision.limitType = "daily_tokens"
  /\ {4, 5} \subseteq ViolatedAt

\* C9: with a daily token limit L and daily usage U, a check of estimated
\* total E is denied daily_tokens whenever U + E > L and the per-minute check
\* passes, and is not denied daily_tokens when U + E <= L.
C9_DailyTokens ==
  Checked =>
    LET U == obs.usage.daily.tokens.total
        L == obs.limits.daily.tokens
        minutePasses == Len(obs.usage.minutely.requests) < obs.limits.perMinute.requests
    IN /\ (U + EstTotal > L /\ minutePasses) => obs.decision.limitType = "daily_tokens"
       /\ U + EstTotal <= L => obs.decision.limitType # "daily_tokens"

\* the specification's case: limit 100, usage 95, estimate 10
C9_Witness ==
  /\ Checked
  /\ obs.limits.daily.tokens = 100
  /\ obs.usage.daily.tokens.total = 95
  /\ EstTotal = 10
  /\ obs.decision.limitType = "daily_tokens"

\* C10: whenever the requests recorded within the last 60 seconds are at or
\* over perMinute.requests, the check is denied with kind rate and a
\* retryAfter greater than 0.
C10_RateDenied ==
  (Checked /\ Len(InLastMinute) >= obs.limits.perMinute.requests) =>
    /\ obs.decision.limitType = "rate"
    /\ obs.decision.retryAfter > 0

\* C22: a check is denied with kind rate only if at least
\* perMinute.requests requests were recorded within the 60 seconds before
\* the check; older timestamps do not count.
C22_SlidingWindow ==
  (Checked /\ obs.decision.limitType = "rate") =>
    Len(InLastMinute) >= obs.limits.perMinute.requests

-----------------------------------------------------------------------------
(* Properties of stream sessions (SpecStream) *)

IsTerminal(e) == e.action \in {"streamError", "streamComplete"}
Terminals(s) == SelectSeq(events[s], IsTerminal)
CancelledMidStream(s) ==
  /\ ioFailures = 0
  /\ sess[s].cancelled = "reading"
  /\ sess[s].reads > 0

\* C3: a stream session that has run to its end, whatever the outcome
\* (completion, denial, HTTP or transport failure, timeout, cancellation),
\* has emitted exactly one terminal event (streamComplete or streamError).
C3_OneTerminalEvent ==
  \A s \in Sessions :
    (ioFailures = 0 /\ sess[s].pc = "closed") => Len(Terminals(s)) = 1

\* C4: a session cancelled with abortStream while it receives chunks has
\* emitted exactly one terminal event, that event reports the abort, and it
\* is the session's last event (no chunk follows the cancellation).
C4_CancelOneAbortEvent ==
  \A s \in Sessions :
    CancelledMidStream(s) =>
      /\ Len(Terminals(s)) = 1
      /\ Terminals(s)[1].error = "Stream aborted by user"
      /\ IsTerminal(events[s][Len(events[s])])

\* C5: a session cancelled mid-stream has had recordUsage applied exactly
\* once, so that the cancelled request counts in the ledger.
C5_CancelRecorded ==
  \A s \in Sessions :
    CancelledMidStream(s) => sess[s].records = 1 /\ usage.lifetime.requests >= 1

DeniedNow(s) ==
  /\ obs.op = "checkRequest"
  /\ obs.p = s
  /\ ~obs.decision.allowed

\* C6: a session that admission has denied has emitted exactly one event, a
\* streamError, has never called fetch and has recorded no usage; and the
\* ledger after the denying check is the ledger that check has read.
C6_DeniedNoTransport ==
  /\ \A s \in Sessions :
       sess[s].denied =>
         /\ sess[s].fetches = 0
         /\ sess[s].records = 0
         /\ Len(events[s]) = 1
         /\ events[s][1].action = "streamError"
  /\ \A s \in Sessions : DeniedNow(s) => sess[s].denied /\ usage = obs.usage

\* a session is denied for the daily request quota another stream has used up
C6_Witness ==
  \E s \in Sessions :
    /\ DeniedNow(s)
    /\ sess[s].denied
    /\ obs.decision.limitType = "daily_requests"
    /\ usage.daily.requests = 1

\* the session has ended with a transport, HTTP or timeout error
EndedInFailure(s) ==
  /\ sess[s].pc = "closed"
  /\ \E i \in 1..Len(events[s]) :
       events[s][i].error \in {userFriendlyError(FailedToFetch),
                               userFriendlyError(ReadTimeoutError),
                               userFriendlyError(HttpError)}

\* C13: a session that ended in failure has recorded usage exactly when it
\* had accumulated text: nothing when it failed before any content delta,
\* one usage entry when it failed after at least one delta.
C13_FailureRecordsText ==
  \A s \in Sessions :
    (ioFailures = 0 /\ EndedInFailure(s)) =>
      (sess[s].records = 1 <=> sess[s].accumulatedContent # NoText)

IsComplete(e) == e.action = "streamComplete"
Completes(s) == SelectSeq(events[s], IsComplete)
SharesId(s) == \E o \in Sessions \ {s} : sess[o].streamId = sess[s].streamId

\* C14: a session records usage at most once and completes at most once; its
\* streamComplete is emitted only after its recordUsage has been made and has
\* returned, and is its last event; once the event is out the session is not
\* in the registry; and as long as recordUsage has not returned the session
\* (not cancelled, sharing its id with no other) is still registered.
C14_SettlementOrder ==
  \A s \in Sessions :
    /\ sess[s].records <= 1
    /\ Len(Completes(s)) <= 1
    /\ Completes(s) # <<>> =>
         /\ sess[s].records = 1
         /\ call[s].op = "recordUsage" /\ call[s].status = "resolved"
         /\ IsComplete(events[s][Len(events[s])])
         /\ activeStreams[sess[s].streamId] # s
    /\ (sess[s].pc = "recordUsage" /\ sess[s].cancelled = "no" /\ ~SharesId(s)) =>
         /\ sess[s].records = 1
         /\ Completes(s) = <<>>
         /\ activeStreams[sess[s].streamId] = s

\* a session has completed after two reads while the other is still streaming
C14_Witness ==
  \E s \in Sessions :
    /\ Completes(s) # <<>>
    /\ sess[s].reads = 2
    /\ sess[s].cancelled = "no"
    /\ \E o \in Sessions \ {s} : sess[o].pc = "reading"

IsChunk(e) == e.action = "streamChunk"
Chunks(s) == SelectSeq(events[s], IsChunk)

\* the deltas of the first n chunk events of a session, concatenated
DeltasUpTo(s, n) ==
  LET cat[i \in 0..n] == IF i = 0 THEN NoText ELSE cat[i - 1] \o Chunks(s)[i].content
  IN cat[n]

\* C15: the accumulated text of every chunk event is the concatenation of the
\* deltas emitted up to it, and the text a streamComplete reports is the
\* concatenation of all the deltas of the session's chunk events.
C15_DeltasMakeText ==
  \A s \in Sessions :
    /\ \A i \in 1..Len(Chunks(s)) : Chunks(s)[i].accumulated = DeltasUpTo(s, i)
    /\ Completes(s) # <<>> => Completes(s)[1].content = DeltasUpTo(s, Len(Chunks(s)))

\* a session has completed with the text "a b" received in two deltas
C15_Witness ==
  \E s \in Sessions :
    /\ Completes(s) # <<>>
    /\ Len(Chunks(s)) = 2
    /\ Completes(s)[1].content = <<"a", " ", "b">>

HasContent(f) == f.content # NoText

\* the chunk events the frames of one read give rise to, in the frames' order,
\* for a session that has accumulated the text acc so far
ExpectedChunks(sid, acc, frames) ==
  LET deltas == SelectSeq(frames, HasContent)
      text[i \in 0..Len(deltas)] == IF i = 0 THEN acc ELSE text[i - 1] \o deltas[i].content
  IN [i \in 1..Len(deltas) |-> StreamChunk(sid, deltas[i].content, text[i])]

TerminalIsLast(ev) ==
  \A i \in 1..Len(ev) : \A j \in 1..Len(ev) :
    (i < j /\ IsTerminal(ev[i])) => ~IsChunk(ev[j])

\* C21: the events of a session are only ever appended to; a read appends
\* the chunk events of its frames in the order of the frames; and no
\* streamChunk of a session follows its streamComplete or streamError.
C21_ChunksInOrderTerminalLast ==
  [][\A s \in Sessions :
       /\ Len(events'[s]) >= Len(events[s])
       /\ SubSeq(events'[s], 1, Len(events[s])) = events[s]
       /\ sess'[s].reads > sess[s].reads =>
            \E frames \in ReadInputs :
              events'[s] = events[s] \o ExpectedChunks(sess[s].streamId,
                                                       sess[s].accumulatedContent, frames)
       /\ TerminalIsLast(events'[s])]_vars

\* a session that was cancelled after two chunk events has ended with an error
C21_Witness ==
  \E s \in Sessions :
    /\ Len(Chunks(s)) = 2
    /\ sess[s].cancelled = "reading"
    /\ IsTerminal(events[s][Len(events[s])])
    /\ IsChunk(events[s][1])

\* the session awaits a storage completion, the fetch, or a read or its timer
AwaitsCallback(s) == sess[s].pc \in {"checkRequest", "connecting", "reading", "recordUsage"}

\* C23: a registered session that has not emitted its terminal event awaits
\* a callback whose delivery takes it on towards that event; no session is
\* left registered with nothing pending.
C23_NoSessionLeftBehind ==
  \A s \in Sessions :
    (sess[s].pc # "idle" /\ activeStreams[sess[s].streamId] = s /\ Terminals(s) = <<>>)
      => AwaitsCallback(s)

\* what a body must decode to, however it is cut into reads: the chunk
\* events of its newline-terminated content frames, their text, and the
\* usage object of its last usage frame, terminated or not
BodyOf(s) == CHOOSE b \in BodySpecs : Encode(b) = sess[s].body
Terminated(b) ==
  IF b.terminated THEN b.frames ELSE SubSeq(b.frames, 1, Len(b.frames) - 1)
TextOfFrames(frames) ==
  LET text[i \in 0..Len(frames)] == IF i = 0 THEN NoText ELSE text[i - 1] \o frames[i].content
  IN text[Len(frames)]
HasUsage(f) == f.usage # NoTokenUsage
UsageOfFrames(frames) ==
  LET reports == SelectSeq(frames, HasUsage)
  IN IF reports = <<>> THEN NoTokenUsage ELSE reports[Len(reports)].usage
ReadLoopOver(s) == sess[s].body # <<>> /\ sess[s].pc \in {"recordUsage", "closed"}

\* C24: when the read loop of a session is over, the chunk events, the
\* accumulated text and the usage are those of the body's frames, whatever
\* the reads the body arrived in.
C24_SplitIndependent ==
  \A s \in Sessions :
    ReadLoopOver(s) =>
      LET b == BodyOf(s)
          text == TextOfFrames(Terminated(b))
      IN /\ Chunks(s) = ExpectedChunks(sess[s].streamId, NoText, Terminated(b))
         /\ sess[s].accumulatedContent = text
         /\ sess[s].tokenUsage =
              FinalUsage([sess[s] EXCEPT !.tokenUsage = UsageOfFrames(b.frames)])

\* the terminated body has been decoded in more reads than it has newlines,
\* so some read has ended inside a line
C24_Witness ==
  /\ ReadLoopOver("s1")
  /\ BodyOf("s1").terminated
  /\ sess["s1"].reads > Cardinality(NewlinesOf(sess["s1"].body))
  /\ Completes("s1") # <<>>

\* C26: when the ledger is initialized, no ledger operation is in progress
\* and no storage operation has failed, the snapshot stored under the
\* storage key equals the in-memory ledger.
C26_PersistedAfterMutation ==
  (Quiet /\ initialized /\ ioFailures = 0) => storage = [usage |-> usage]

\* C27: a step that closes a tab aborts every session of that tab that is in
\* flight and removes it from the registry, whatever id it is registered
\* under, and leaves the sessions of the other tab and their entries as they
\* were.
TabClosed(tabId) == obs'.op = "tabRemoved" /\ obs'.tabId = tabId
C27_TabCloseAbortsAll ==
  [][\A tabId \in Tabs : TabClosed(tabId) =>
       \A s \in Sessions :
         IF TabOf(s) = tabId
         THEN AwaitsCallback(s) =>
                /\ sess'[s].aborted
                /\ activeStreams'[sess[s].streamId] # s
         ELSE /\ sess'[s] = sess[s]
              /\ events'[s] = events[s]
              /\ (sess[s].pc # "idle" /\ activeStreams[sess[s].streamId] = s)
                   => activeStreams'[sess[s].streamId] = s]_vars

\* C28: an update that names daily.tokens and/or daily.cost leaves
\* daily.requests, the monthly limits and perMinute.requests as they were.
C28_PartialUpdateKeepsOthers ==
  [][/\ limits'.daily.requests = limits.daily.requests
     /\ limits'.monthly = limits.monthly
     /\ limits'.perMinute = limits.perMinute]_vars

\* C29: with sessions under distinct ids and no failed storage operation,
\* the daily request count of the ledger never exceeds the configured
\* daily.requests limit (the clock and the limits do not change here).
C29_QuotaBoundsRecorded ==
  (usage # NoUsage /\ ioFailures = 0 /\ sess["s1"].streamId # sess["s2"].streamId
     /\ limits.daily.requests # Null)
    => usage.daily.requests <= limits.daily.requests

\* C30: the registry entry of a session in flight is never given to another
\* session: a step leaves it with that session or removes it.
C30_DistinctEntries ==
  [][\A s \in Sessions :
       (AwaitsCallback(s) /\ activeStreams[sess[s].streamId] = s)
         => activeStreams'[sess[s].streamId] \in {s, NoController}]_vars

\* what the claim expects a completed session to record: the last usage
\* object of the body if its total is not 0, and the estimate otherwise
EstimateOf(s) ==
  LET p == countTokens(sess[s].prompt)
      c == countTokens(TextOf(sess[s].accumulatedContent))
  IN [prompt_tokens |-> p, completion_tokens |-> c, total_tokens |-> p + c]
ExpectedUsage(s) ==
  LET last == UsageOfFrames(BodyOf(s).frames)
  IN IF last.total_tokens # 0 THEN last ELSE EstimateOf(s)

\* C25: the usage a completed session records, reports in its streamComplete
\* and adds to the ledger is the last usage object received if the stream
\* reported one with a total that is not 0, and otherwise the estimate made
\* of the serialized messages and of the accumulated text.
C25_RecordedUsage ==
  \A s \in Sessions :
    (ReadLoopOver(s) /\ sess[s].records = 1) =>
      /\ sess[s].tokenUsage = ExpectedUsage(s)
      /\ call[s].op = "recordUsage" /\ call[s].pc # "done" =>
           /\ call[s].args.promptTokens = ExpectedUsage(s).prompt_tokens
           /\ call[s].args.completionTokens = ExpectedUsage(s).completion_tokens
      /\ Completes(s) # <<>> =>
           /\ Completes(s)[1].usage = ExpectedUsage(s)
           /\ usage.daily.tokens.total =
                ExpectedUsage(s).prompt_tokens + ExpectedUsage(s).completion_tokens

\* a session has completed on a stream that reported two usage objects; one
\* has completed on a stream whose only usage object had a total of 0
C25_Witness ==
  /\ Completes("s1") # <<>>
  /\ Len(SelectSeq(BodyOf("s1").frames, HasUsage)) = 2
  /\ sess["s1"].tokenUsage = ReportedUsage
C25_WitnessFallback ==
  /\ Completes("s1") # <<>>
  /\ UsageOfFrames(BodyOf("s1").frames) = ZeroTotalUsage
  /\ sess["s1"].tokenUsage.total_tokens > 0

\* C16: a failed write of the ledger does not fail the request: once a
\* session's recordUsage is over, whether its write succeeded or not, the
\* in-memory counters hold the usage, the session has emitted streamComplete
\* and it is no longer registered.
C16_SaveFailureTolerated ==
  \A s \in Sessions :
    (call[s].op = "recordUsage" /\ call[s].pc = "done") =>
      /\ usage.lifetime.requests >= 1
      /\ Completes(s) # <<>>
      /\ activeStreams[sess[s].streamId] # s

-----------------------------------------------------------------------------
(* Properties of the rollover check (SpecRollover) *)

\* the step in which initialize() returns from checkAndResetPeriods, at once
\* or after the save the check has awaited, and the operation's body starts
RolloverReturns(p) ==
  /\ call[p].pc \in {"getFromStorage", "init_saveUsage"}
  /\ call'[p].pc \notin {"getFromStorage", "init_saveUsage"}
  /\ ioFailures' = ioFailures
  /\ obs'.op # "none"

\* C19: when the rollover check returns, the ledger the operation goes on
\* with has the date and the month of the clock as its keys; a scope of the
\* loaded snapshot with another key is zeroed, one with that key is unchanged.
C19_RolloverPostcondition ==
  [][\A p \in Procs :
       RolloverReturns(p) =>
         LET after == obs'.usage
             loaded == storage.usage
         IN /\ after.daily.date = getDateString(now')
            /\ after.monthly.month = getMonthString(now')
            /\ after.daily = IF loaded.daily.date = getDateString(now')
                               THEN loaded.daily ELSE EmptyDaily(now')
            /\ after.monthly = IF loaded.monthly.month = getMonthString(now')
                                 THEN loaded.monthly ELSE EmptyMonthly(now')]_vars

-----------------------------------------------------------------------------
(* Properties of export and import (SpecBackup) *)

Imported(p) ==
  /\ ioFailures = 0
  /\ call[p].op = "importData"
  /\ call[p].pc = "done"
  /\ call[p].status = "resolved"

\* C20: when an importData of the exported object has returned, the usage
\* (counters, period keys, minutely timestamps, modelBreakdown) and the
\* limits are those of the moment of the export.
C20_RoundTrip ==
  \A p \in Procs :
    Imported(p) =>
      /\ usage = submitted.exported.usage
      /\ limits = submitted.exported.limits

-----------------------------------------------------------------------------
(* Properties of unlisted models (SpecPricing) *)

\* the checks a listed model with zero rates and no context window would meet
ZeroRateChecks ==
  << [kind |-> "rate",
      violated |-> Len(obs.usage.minutely.requests) >= obs.limits.perMinute.requests],
     [kind |-> "daily_tokens",
      violated |-> obs.usage.daily.tokens.total + EstTotal > obs.limits.daily.tokens],
     [kind |-> "daily_requests",
      violated |-> obs.usage.daily.requests + 1 > obs.limits.daily.requests],
     [kind |-> "daily_cost",
      violated |-> obs.usage.daily.cost > obs.limits.daily.cost],
     [kind |-> "monthly_tokens",
      violated |-> obs.usage.monthly.tokens.total + EstTotal > obs.limits.monthly.tokens],
     [kind |-> "monthly_requests",
      violated |-> obs.usage.monthly.requests + 1 > obs.limits.monthly.requests],
     [kind |-> "monthly_cost",
      violated |-> obs.usage.monthly.cost > obs.limits.monthly.cost] >>

ZeroRateViolatedAt == {i \in 1..Len(ZeroRateChecks) : ZeroRateChecks[i].violated}

ZeroRateDecision ==
  IF ZeroRateViolatedAt = {} THEN "none"
  ELSE ZeroRateChecks[CHOOSE i \in ZeroRateViolatedAt :
                        \A j \in ZeroRateViolatedAt : i <= j].kind

\* C18: for a model without an entry in the pricing table the estimated cost
\* is 0 and the decision is the one a listed model with zero rates and no
\* context window would get: never context, never a cost denial the
\* request's own estimated cost brings about.
C18_UnlistedModelIsFree ==
  (Checked /\ obs.args.model \notin DOMAIN models) =>
    /\ EstCost = 0
    /\ obs.decision.limitType = ZeroRateDecision

-----------------------------------------------------------------------------
(* Properties of cancellation (SpecCancel) *)

Replied(o, sid) == o.op = "abortStream" /\ o.streamId = sid
GivenId(sid) == {s \in Sessions : sess[s].pc # "idle" /\ sess[s].streamId = sid}
AllEnded(sid) == \A s \in GivenId(sid) : Terminals(s) # <<>>

\* C17: the reply to an 'abortStream' message is true exactly when the id was
\* registered when the message arrived, and then the id is registered no
\* more; a message for the id just cancelled, or for an id all of whose
\* sessions have emitted their terminal event, is answered false; and a
\* call answered false emits no event and changes neither the sessions, the
\* registry nor the ledger.
C17_CancelIdempotent ==
  [][\A sid \in StreamIds :
       Replied(obs', sid) =>
         /\ obs'.success = (activeStreams[sid] # NoController)
         /\ activeStreams'[sid] = NoController
         /\ Replied(obs, sid) => ~obs'.success
         /\ AllEnded(sid) => ~obs'.success
         /\ ~obs'.success =>
              UNCHANGED <<sess, activeStreams, events, usage, storage, ioQueue>>]_vars

\* a second 'abortStream' for an id whose session was cancelled while it was
\* reading has been answered false
C17_Witness ==
  /\ Replied(obs, "x")
  /\ ~obs.success
  /\ sess["s1"].cancelled = "reading"
  /\ Terminals("s1") # <<>>

-----------------------------------------------------------------------------
(* Properties of the limits (SpecPolicy) *)

\* the limit of a period that is an object
LimitOf(period, resource) ==
  IF obs.limits[period] = NullPeriod THEN Undefined
  ELSE obs.limits[period][resource]

DenialKinds ==
  {"rate", "daily_tokens", "daily_requests", "daily_cost",
   "monthly_tokens", "monthly_requests", "monthly_cost", "context"}

\* C11: a limit set to null is unlimited: a check made while perMinute.requests,
\* a daily limit or a monthly limit is null is never denied with the kind of
\* that limit, whatever usage is recorded.
C11_NullIsUnlimited ==
  (Checked /\ ioFailures = 0) =>
    /\ LimitOf("perMinute", "requests") = Null => obs.decision.limitType # "rate"
    /\ \A period \in {"daily", "monthly"}, resource \in {"tokens", "requests", "cost"} :
         LimitOf(period, resource) = Null =>
           obs.decision.limitType # (IF period = "daily" THEN "daily_" ELSE "monthly_") \o resource

\* C12: checkRequest never throws: under every policy updateLimits can set up
\* (here already with no storage failure at all) its promise resolves with a
\* decision that is allowed or denied with a kind.
C12_NeverThrows ==
  ioFailures = 0 =>
    /\ \A p \in Procs :
         (call[p].op = "checkRequest" /\ call[p].pc = "done") => call[p].status = "resolved"
    /\ Checked => (obs.decision.allowed \/ obs.decision.limitType \in DenialKinds)

=============================================================================
